---- MODULE Spec2Model ----
(***************************************************************************)
(* VideoMetaDataManager (src/video_metadata_manager.py): a MySQL-backed    *)
(* store of JSON metadata keyed by video_id.  The model covers the table   *)
(* bootstrap, the connection retry loop, the JSON marshalling and the four *)
(* SQL statements, one call at a time.                                     *)
(***************************************************************************)
EXTENDS Integers, Sequences, FiniteSets, TLC

(***************************************************************************)
(* Python values handed to json.dumps / produced by json.loads.            *)
(* A value is a node [t, a, c]: t its type, a its atom (the text of a str  *)
(* or the digits of an int), c its children.  A dict's children are its    *)
(* items in insertion order, each an "item" node <<key, value>>.           *)
(***************************************************************************)
PyNone == [t |-> "none", a |-> "", c |-> <<>>]

PyInt(d) == [t |-> "int", a |-> d, c |-> <<>>]

PyStr(s) == [t |-> "str", a |-> s, c |-> <<>>]

PyList(xs) == [t |-> "list", a |-> "", c |-> xs]

PyTuple(xs) == [t |-> "tuple", a |-> "", c |-> xs]

PySet(xs) == [t |-> "set", a |-> "", c |-> xs]

PyItem(k, v) == [t |-> "item", a |-> "", c |-> <<k, v>>]

PyDict(items) == [t |-> "dict", a |-> "", c |-> items]

(***************************************************************************)
(* JSON text is a sequence of tokens: punctuation "p", string literal "s", *)
(* number "n", literal name "l".                                           *)
(***************************************************************************)
Tok(k, s) == [k |-> k, s |-> s]

P(s) == Tok("p", s)

\* json.dumps raises TypeError for a value it has no encoding for (a set),
\* and for a dict key that is not a str, int, float, bool or None.
RECURSIVE Serializable(_)
Serializable(v) ==
    CASE v.t \in {"none", "int", "str"} -> TRUE
      [] v.t \in {"list", "tuple"} -> \A i \in 1..Len(v.c) : Serializable(v.c[i])
      [] v.t = "dict" -> \A i \in 1..Len(v.c) :
                            /\ v.c[i].c[1].t \in {"str", "int"}
                            /\ Serializable(v.c[i].c[2])
      [] OTHER -> FALSE

\* json.dumps: lists and tuples both become arrays; a dict key is written as
\* a string whatever its type; items keep insertion order.
RECURSIVE json_dumps(_)
RECURSIVE DumpSeq(_, _)
RECURSIVE DumpItems(_, _)
json_dumps(v) ==
    CASE v.t = "none" -> <<Tok("l", "null")>>
      [] v.t = "int" -> <<Tok("n", v.a)>>
      [] v.t = "str" -> <<Tok("s", v.a)>>
      [] v.t \in {"list", "tuple"} -> <<P("[")>> \o DumpSeq(v.c, 1) \o <<P("]")>>
      [] v.t = "dict" -> <<P("{")>> \o DumpItems(v.c, 1) \o <<P("}")>>

DumpSeq(xs, i) ==
    IF i > Len(xs) THEN <<>>
    ELSE (IF i > 1 THEN <<P(",")>> ELSE <<>>) \o json_dumps(xs[i]) \o DumpSeq(xs, i + 1)

DumpItems(items, i) ==
    IF i > Len(items) THEN <<>>
    ELSE (IF i > 1 THEN <<P(",")>> ELSE <<>>)
         \o <<Tok("s", items[i].c[1].a), P(":")>>
         \o json_dumps(items[i].c[2])
         \o DumpItems(items, i + 1)

\* json.loads: a recursive-descent decoder.  A parse step yields
\* [ok, v, n]: whether a value was read, the value, the next token index.
ParseFail == [ok |-> FALSE, v |-> PyNone, n |-> 0]

ParseOk(v, n) == [ok |-> TRUE, v |-> v, n |-> n]

\* dict[key] = value while decoding an object: a repeated key keeps its
\* place and takes the later value.
PutItem(items, k, v) ==
    IF \E i \in 1..Len(items) : items[i].c[1] = k
    THEN [i \in 1..Len(items) |->
             IF items[i].c[1] = k THEN PyItem(k, v) ELSE items[i]]
    ELSE Append(items, PyItem(k, v))

RECURSIVE ParseValue(_, _)
RECURSIVE ParseArray(_, _, _)
RECURSIVE ParseObject(_, _, _)
ParseValue(t, i) ==
    IF i > Len(t) THEN ParseFail
    ELSE CASE t[i].k = "l" -> IF t[i].s = "null" THEN ParseOk(PyNone, i + 1) ELSE ParseFail
           [] t[i].k = "n" -> ParseOk(PyInt(t[i].s), i + 1)
           [] t[i].k = "s" -> ParseOk(PyStr(t[i].s), i + 1)
           [] t[i] = P("[") ->
                IF i + 1 <= Len(t) /\ t[i + 1] = P("]")
                THEN ParseOk(PyList(<<>>), i + 2)
                ELSE ParseArray(t, i + 1, <<>>)
           [] t[i] = P("{") ->
                IF i + 1 <= Len(t) /\ t[i + 1] = P("}")
                THEN ParseOk(PyDict(<<>>), i + 2)
                ELSE ParseObject(t, i + 1, <<>>)
           [] OTHER -> ParseFail

\* the elements of an array, from token i, after the elements in acc
ParseArray(t, i, acc) ==
    LET e == ParseValue(t, i) IN
    IF ~e.ok \/ e.n > Len(t) THEN ParseFail
    ELSE IF t[e.n] = P("]") THEN ParseOk(PyList(Append(acc, e.v)), e.n + 1)
    ELSE IF t[e.n] = P(",") THEN ParseArray(t, e.n + 1, Append(acc, e.v))
    ELSE ParseFail

\* the members of an object, from token i, after the items in acc
ParseObject(t, i, acc) ==
    IF i + 1 > Len(t) \/ t[i].k # "s" \/ t[i + 1] # P(":") THEN ParseFail
    ELSE LET e == ParseValue(t, i + 2) IN
         IF ~e.ok \/ e.n > Len(t) THEN ParseFail
         ELSE IF t[e.n] = P("}")
              THEN ParseOk(PyDict(PutItem(acc, PyStr(t[i].s), e.v)), e.n + 1)
         ELSE IF t[e.n] = P(",")
              THEN ParseObject(t, e.n + 1, PutItem(acc, PyStr(t[i].s), e.v))
         ELSE ParseFail

\* json.loads(text): the whole text must be one value (JSONDecodeError
\* otherwise, here ok = FALSE).
json_loads(text) ==
    LET r == ParseValue(text, 1) IN
    IF r.ok /\ r.n = Len(text) + 1 THEN r ELSE ParseFail


(***************************************************************************)
(* The inputs of the model.                                                *)
(***************************************************************************)
\* the ids callers use: two that differ in case only, and another
VideoIds == {"v1", "V1", "v2"}

\* {"title": "Demo", "duration_s": 42}
MetaDemo ==
    PyDict(<<PyItem(PyStr("title"), PyStr("Demo")),
             PyItem(PyStr("duration_s"), PyInt("42"))>>)

\* {"title": "Demo v2"}
MetaDemo2 == PyDict(<<PyItem(PyStr("title"), PyStr("Demo v2"))>>)

\* {1: "x"}: a dict with an int key
MetaIntKey == PyDict(<<PyItem(PyInt("1"), PyStr("x"))>>)

\* {"tags": ("a",)}: a dict holding a tuple
MetaTuple == PyDict(<<PyItem(PyStr("tags"), PyTuple(<<PyStr("a")>>))>>)

\* {"s": set()}: a value json.dumps has no encoding for
MetaSet == PyDict(<<PyItem(PyStr("s"), PySet(<<>>))>>)

MetaInputs == {MetaDemo, MetaDemo2, MetaIntKey, MetaTuple, MetaSet}

(***************************************************************************)
(* The table video_metadata.                                               *)
(***************************************************************************)
\* The key a video_id has under the table's collation utf8mb4_unicode_ci,
\* which ignores case: ids with equal keys are the same PRIMARY KEY.
Collate(id) == IF id = "V1" THEN "v1" ELSE id

\* WHERE video_id = %s
Matching(rs, id) == {r \in rs : Collate(r.video_id) = Collate(id)}

\* mutant: a table without the PRIMARY KEY
DuplicateKeyNever(rs, id) == FALSE

\* the PRIMARY KEY check of an INSERT
DuplicateKey(rs, id) == Matching(rs, id) # {}

\* INSERT INTO video_metadata (video_id, metadata) VALUES (%s, %s)
InsertRow(rs, id, text) == rs \cup {[video_id |-> id, metadata |-> text]}

\* the rows an UPDATE ... SET metadata = %s changes: MySQL leaves a row whose
\* column already has the value alone
Changed(matched, text) == {r \in matched : r.metadata # text}

\* mutant: the UPDATE without its WHERE clause
UpdateAllRows(rs, id, text) == {[r EXCEPT !.metadata = text] : r \in rs}

\* UPDATE video_metadata SET metadata = %s WHERE video_id = %s
UpdateRows(rs, id, text) ==
    (rs \ Changed(Matching(rs, id), text))
    \cup {[r EXCEPT !.metadata = text] : r \in Changed(Matching(rs, id), text)}

\* cursor.rowcount after the UPDATE.  The connection's client_flag holds
\* MULTI_STATEMENTS and not FOUND_ROWS, so the server counts the rows it
\* changed, not the rows the WHERE clause found.
UpdateRowCount(rs, id, text) == Cardinality(Changed(Matching(rs, id), text))

\* mutant: the table is created anew each time
CreateTableFresh(exists, rs) == {}

\* CREATE TABLE IF NOT EXISTS video_metadata: the rows of the table afterwards
CreateTableIfNotExists(exists, rs) == IF exists THEN rs ELSE {}

\* the orders in which SELECT * may deliver the rows
Orderings(rs) ==
    {s \in [1..Cardinality(rs) -> rs] :
        \A i, j \in 1..Cardinality(rs) : s[i] = s[j] => i = j}

(***************************************************************************)
(* What a call hands back.                                                 *)
(***************************************************************************)
Result(kind, n, recs) == [kind |-> kind, n |-> n, recs |-> recs]

RPending == Result("pending", 0, <<>>)

\* __init__ came back (it returns nothing)
RReturned == Result("returned", 0, <<>>)

RNone == Result("none", 0, <<>>)

RInt(n) == Result("int", n, <<>>)

RRecord(rec) == Result("record", 0, <<rec>>)

RList(recs) == Result("list", 0, recs)

\* an exception left the call
RRaised == Result("raised", 0, <<>>)

\* mutant: no except clause, the error leaves the method
OnDatabaseErrorReraise(op) == RRaised

\* the except pymysql.Error clause of each method: what the call returns
\* once a pymysql.Error reached it
OnDatabaseError(op) ==
    CASE op = "init" -> RReturned
      [] op = "insert" -> RNone
      [] op = "update" -> RInt(0)
      [] op = "get" -> RNone
      [] op = "list" -> RList(<<>>)

\* mutant: the conditional the wrong way round
DecodeMetadataInverted(text) ==
    IF text # <<>> THEN ParseOk(PyDict(<<>>), 1) ELSE json_loads(text)

\* json.loads(row['metadata']) if row['metadata'] else {}
DecodeMetadata(text) ==
    IF text = <<>> THEN ParseOk(PyDict(<<>>), 1) ELSE json_loads(text)

\* {'video_id': row['video_id'], 'metadata': ...}
Record(row) == [video_id |-> row.video_id, metadata |-> DecodeMetadata(row.metadata).v]

\* mutant: the try around the whole loop, one bad row empties the listing
DecodeRowsAbort(fetched, i) ==
    IF \E j \in 1..Len(fetched) : ~DecodeMetadata(fetched[j].metadata).ok
    THEN <<>>
    ELSE [j \in 1..Len(fetched) |-> Record(fetched[j])]

\* mutant: only the first fetched row is decoded
DecodeRowsFirst(fetched, i) ==
    IF Len(fetched) >= 1 /\ DecodeMetadata(fetched[1].metadata).ok
    THEN <<Record(fetched[1])>>
    ELSE <<>>

\* the loop of get_all_videos over the fetched rows: a row whose metadata
\* does not decode is skipped
RECURSIVE DecodeRows(_, _)
DecodeRows(fetched, i) ==
    IF i > Len(fetched) THEN <<>>
    ELSE (IF DecodeMetadata(fetched[i].metadata).ok THEN <<Record(fetched[i])>> ELSE <<>>)
         \o DecodeRows(fetched, i + 1)

\* what get_video_metadata makes of cursor.fetchone()
GetResult(matched) ==
    IF matched = {} THEN RNone
    ELSE LET row == CHOOSE r \in matched : TRUE IN
         IF DecodeMetadata(row.metadata).ok THEN RRecord(Record(row)) ELSE RNone

(***************************************************************************)
(* _get_connection                                                         *)
(***************************************************************************)
max_retries == 3

retry_delay == 1

\* mutant: off by one, no attempt is the last
IsLastAttemptOffByOne(a) == a = max_retries

\* if attempt == max_retries - 1
IsLastAttempt(a) == a = max_retries - 1

\* mutant: leaving the with statement does not close the connection
CloseConnectionLeak(n) == n

\* Connection.__exit__ of the with statement closes the connection
CloseConnection(n) == n - 1

(***************************************************************************)
(* State.                                                                  *)
(***************************************************************************)
VARIABLES
    dbExists,     \* the server has the database db_name
    tableExists,  \* the database has the table video_metadata
    rows,         \* the rows of the table: [video_id, metadata] with metadata the stored text
    constructed,  \* a VideoMetaDataManager has been constructed
    pc,           \* where the call in progress is: "idle", "connect", "sleep", "body", "exit"
    call,         \* the call in progress or just returned: [op, video_id, metadata, had],
                  \* had: a row with the video_id existed when the call was made
    attempt,      \* the loop variable of _get_connection
    attempts,     \* pymysql.connect calls of the current acquisition
    slept,        \* seconds slept by the current acquisition
    open,         \* connections opened by the store and not closed
    result,       \* what the call returns
    err,          \* the failure the call met: "ok", "type", "connect", "noconn", "query", "decode"
    wrote         \* per collation key: who last set the row's metadata ("none", "insert",
                  \* "update", "corrupt"), the id inserted and the value last written

vars == <<dbExists, tableExists, rows, constructed, pc, call, attempt, attempts,
          slept, open, result, err, wrote>>

Keys == {Collate(id) : id \in VideoIds}

NoCall == [op |-> "none", video_id |-> "", metadata |-> PyNone, had |-> FALSE]

Init ==
    /\ dbExists = FALSE
    /\ tableExists = FALSE
    /\ rows = {}
    /\ constructed = FALSE
    /\ pc = "idle"
    /\ call = NoCall
    /\ attempt = 0
    /\ attempts = 0
    /\ slept = 0
    /\ open = 0
    /\ result = RPending
    /\ err = "ok"
    /\ wrote = [k \in Keys |-> [src |-> "none", id |-> "", v |-> PyNone]]

\* a method is entered and reaches its with self._get_connection(...)
Enter(op, id, m) ==
    /\ pc = "idle"
    /\ pc' = "connect"
    /\ call' = [op |-> op, video_id |-> id, metadata |-> m, had |-> DuplicateKey(rows, id)]
    /\ attempt' = 0
    /\ attempts' = 0
    /\ slept' = 0
    /\ result' = RPending
    /\ err' = "ok"
    /\ UNCHANGED <<dbExists, tableExists, rows, open, wrote>>

\* json.dumps(metadata) raises TypeError, which no except clause catches
RaiseTypeError(op, id, m) ==
    /\ pc = "idle"
    /\ call' = [op |-> op, video_id |-> id, metadata |-> m, had |-> DuplicateKey(rows, id)]
    /\ result' = RRaised
    /\ err' = "type"
    /\ UNCHANGED <<dbExists, tableExists, rows, pc, attempt, attempts, slept, open, wrote>>

\* VideoMetaDataManager(...): __init__ stores the parameters and calls _create_table
Construct ==
    /\ Enter("init", "", PyNone)
    /\ constructed' = TRUE

insert_video_data(id, m) ==
    /\ constructed
    /\ IF Serializable(m) THEN Enter("insert", id, m) ELSE RaiseTypeError("insert", id, m)
    /\ UNCHANGED constructed

update_video_metadata(id, m) ==
    /\ constructed
    /\ IF Serializable(m) THEN Enter("update", id, m) ELSE RaiseTypeError("update", id, m)
    /\ UNCHANGED constructed

get_video_metadata(id) ==
    /\ constructed
    /\ Enter("get", id, PyNone)
    /\ UNCHANGED constructed

get_all_videos ==
    /\ constructed
    /\ Enter("list", "", PyNone)
    /\ UNCHANGED constructed

\* pymysql.connect(...) returns a connection, and _get_connection returns it
\* (its locals are gone).  With use_db the server refuses the connection
\* while the database does not exist.
ConnectOk ==
    /\ pc = "connect"
    /\ (call.op # "init") => dbExists
    /\ open' = open + 1
    /\ pc' = "body"
    /\ attempt' = 0
    /\ attempts' = 0
    /\ slept' = 0
    /\ UNCHANGED <<dbExists, tableExists, rows, constructed, call, result, err, wrote>>

\* pymysql.connect(...) raises pymysql.Error: on the last attempt it is
\* re-raised (the locals of _get_connection are gone), and the except clause
\* of the calling method catches it
ConnectFail ==
    /\ pc = "connect"
    /\ IF IsLastAttempt(attempt)
       THEN /\ pc' = "idle"
            /\ result' = OnDatabaseError(call.op)
            /\ err' = "connect"
            /\ attempt' = 0
            /\ attempts' = 0
            /\ slept' = 0
       ELSE /\ pc' = "sleep"
            /\ attempts' = attempts + 1
            /\ UNCHANGED <<result, err, attempt, slept>>
    /\ UNCHANGED <<dbExists, tableExists, rows, constructed, call, open, wrote>>

\* time.sleep(retry_delay), then the next iteration of for attempt in
\* range(max_retries); a loop that ran out would return None, and the with
\* statement of the caller would raise on it
Sleep ==
    /\ pc = "sleep"
    /\ IF attempt + 1 < max_retries
       THEN /\ pc' = "connect"
            /\ slept' = slept + retry_delay
            /\ attempt' = attempt + 1
            /\ UNCHANGED <<result, err, attempts>>
       ELSE /\ pc' = "idle"
            /\ result' = RRaised
            /\ err' = "noconn"
            /\ attempt' = 0
            /\ attempts' = 0
            /\ slept' = 0
    /\ UNCHANGED <<dbExists, tableExists, rows, constructed, call, open, wrote>>


\* the body of _create_table under its connection: CREATE DATABASE IF NOT
\* EXISTS, USE, CREATE TABLE IF NOT EXISTS, commit.  A statement may fail
\* (done = 0: the first one, done = 1: after the database was created); the
\* except clause prints and __init__ returns all the same.
ExecCreateTable ==
    /\ pc = "body"
    /\ call.op = "init"
    /\ \E done \in 0..2 :
          /\ dbExists' = (dbExists \/ done >= 1)
          /\ tableExists' = (tableExists \/ done = 2)
          /\ rows' = IF done = 2 THEN CreateTableIfNotExists(tableExists, rows) ELSE rows
          /\ err' = IF done = 2 THEN "ok" ELSE "query"
    /\ result' = RReturned
    /\ pc' = "exit"
    /\ UNCHANGED <<constructed, call, attempt, attempts, slept, open, wrote>>

\* the body of insert_video_data: the INSERT fails on a server fault, a
\* missing table or a duplicate key (rolled back, None returned), and else
\* commits and returns cursor.lastrowid, 0 in a table without AUTO_INCREMENT
ExecInsert ==
    /\ pc = "body"
    /\ call.op = "insert"
    /\ \E fault \in BOOLEAN :
          IF fault \/ ~tableExists \/ DuplicateKey(rows, call.video_id)
          THEN /\ result' = OnDatabaseError("insert")
               /\ err' = "query"
               /\ UNCHANGED <<rows, wrote>>
          ELSE /\ rows' = InsertRow(rows, call.video_id, json_dumps(call.metadata))
               /\ wrote' = [wrote EXCEPT ![Collate(call.video_id)] =
                               [src |-> "insert", id |-> call.video_id, v |-> call.metadata]]
               /\ result' = RInt(0)
               /\ err' = "ok"
    /\ pc' = "exit"
    /\ UNCHANGED <<dbExists, tableExists, constructed, call, attempt, attempts, slept, open>>

\* the body of update_video_metadata
ExecUpdate ==
    /\ pc = "body"
    /\ call.op = "update"
    /\ \E fault \in BOOLEAN :
          IF fault \/ ~tableExists
          THEN /\ result' = OnDatabaseError("update")
               /\ err' = "query"
               /\ UNCHANGED <<rows, wrote>>
          ELSE /\ rows' = UpdateRows(rows, call.video_id, json_dumps(call.metadata))
               /\ wrote' = IF Matching(rows, call.video_id) = {} THEN wrote
                           ELSE [wrote EXCEPT ![Collate(call.video_id)] =
                                    [@ EXCEPT !.src = "update", !.v = call.metadata]]
               /\ result' = RInt(UpdateRowCount(rows, call.video_id, json_dumps(call.metadata)))
               /\ err' = "ok"
    /\ pc' = "exit"
    /\ UNCHANGED <<dbExists, tableExists, constructed, call, attempt, attempts, slept, open>>

\* the body of get_video_metadata: a JSONDecodeError is caught with the
\* database errors
ExecGet ==
    /\ pc = "body"
    /\ call.op = "get"
    /\ \E fault \in BOOLEAN :
          IF fault \/ ~tableExists
          THEN /\ result' = OnDatabaseError("get")
               /\ err' = "query"
          ELSE /\ result' = GetResult(Matching(rows, call.video_id))
               /\ err' = IF \E r \in Matching(rows, call.video_id) : ~DecodeMetadata(r.metadata).ok
                         THEN "decode" ELSE "ok"
    /\ pc' = "exit"
    /\ UNCHANGED <<dbExists, tableExists, rows, constructed, call, attempt, attempts,
                   slept, open, wrote>>

\* the body of get_all_videos
ExecList ==
    /\ pc = "body"
    /\ call.op = "list"
    /\ \E fault \in BOOLEAN :
          IF fault \/ ~tableExists
          THEN /\ result' = OnDatabaseError("list")
               /\ err' = "query"
          ELSE /\ \E fetched \in Orderings(rows) : result' = RList(DecodeRows(fetched, 1))
               /\ err' = "ok"
    /\ pc' = "exit"
    /\ UNCHANGED <<dbExists, tableExists, rows, constructed, call, attempt, attempts,
                   slept, open, wrote>>

\* the with statement is left, by return or by exception: the connection is
\* closed, then the method returns
ExitWith ==
    /\ pc = "exit"
    /\ open' = CloseConnection(open)
    /\ pc' = "idle"
    /\ UNCHANGED <<dbExists, tableExists, rows, constructed, call, attempt, attempts,
                   slept, result, err, wrote>>

\* how many trailing tokens a corruption may cut off (or the whole text)
MaxCut == 1

\* Outside the store: the metadata text of a well-formed row is cut short by
\* hand, to nothing or by up to MaxCut trailing tokens.  What the last call
\* returned says nothing about the table any more, and is forgotten.
Corrupt ==
    /\ pc = "idle"
    /\ \E r \in rows : \E n \in {0} \cup ((Len(r.metadata) - MaxCut)..(Len(r.metadata) - 1)) :
          /\ n >= 0
          /\ json_loads(r.metadata).ok
          /\ rows' = (rows \ {r}) \cup {[r EXCEPT !.metadata = SubSeq(r.metadata, 1, n)]}
          /\ wrote' = [wrote EXCEPT ![Collate(r.video_id)] =
                          [@ EXCEPT !.src = "corrupt", !.v = PyNone]]
    /\ call' = NoCall
    /\ result' = RPending
    /\ err' = "ok"
    /\ UNCHANGED <<dbExists, tableExists, constructed, pc, attempt, attempts, slept, open>>

Next ==
    \/ Construct
    \/ \E id \in VideoIds, m \in MetaInputs : insert_video_data(id, m)
    \/ \E id \in VideoIds, m \in MetaInputs : update_video_metadata(id, m)
    \/ \E id \in VideoIds : get_video_metadata(id)
    \/ get_all_videos
    \/ ConnectOk
    \/ ConnectFail
    \/ Sleep
    \/ ExecCreateTable
    \/ ExecInsert
    \/ ExecUpdate
    \/ ExecGet
    \/ ExecList
    \/ ExitWith
    \/ Corrupt

Spec == Init /\ [][Next]_vars


(***************************************************************************)
(* Vocabulary of the properties.                                           *)
(***************************************************************************)
\* the call named op has returned (or raised)
Returned(op) == pc = "idle" /\ call.op = op /\ result.kind # "pending"

\* the call got its connection and its statement ran
DbOk == err \in {"ok", "decode"}

\* a value made of JSON's own types only: dicts with str keys, lists, str,
\* int, None (no tuple, no other key type)
RECURSIVE JsonNative(_)
JsonNative(v) ==
    CASE v.t \in {"none", "int", "str"} -> TRUE
      [] v.t = "list" -> \A i \in 1..Len(v.c) : JsonNative(v.c[i])
      [] v.t = "dict" -> \A i \in 1..Len(v.c) :
                            v.c[i].c[1].t = "str" /\ JsonNative(v.c[i].c[2])
      [] OTHER -> FALSE

\* Python's == on these values: dicts compare as sets of items, lists and
\* tuples element by element (a list never equals a tuple), atoms by type
\* and value.
RECURSIVE PyEq(_, _)
PyEq(x, y) ==
    IF x.t # y.t THEN FALSE
    ELSE IF x.t = "dict" THEN
        /\ Len(x.c) = Len(y.c)
        /\ \A i \in 1..Len(x.c) : \E j \in 1..Len(y.c) :
              /\ x.c[i].c[1] = y.c[j].c[1]
              /\ PyEq(x.c[i].c[2], y.c[j].c[2])
    ELSE IF x.t \in {"list", "tuple"} THEN
        /\ Len(x.c) = Len(y.c)
        /\ \A i \in 1..Len(x.c) : PyEq(x.c[i], y.c[i])
    ELSE x = y

\* the ghost record of the row get_video_metadata(call.video_id) looks up
Written == wrote[Collate(call.video_id)]

Ids(rs) == {r.video_id : r \in rs}

\* the text is a JSON document
ValidJson(text) == json_loads(text).ok


(***************************************************************************)
(* C1  Round trip.                                                         *)
(***************************************************************************)
\* C1 as stated: after insert_video_data(video_id, metadata) succeeded on a
\* store without a row for video_id, a get_video_metadata(video_id) that
\* reaches the table returns a record with that video_id and a metadata
\* deep-equal to the inserted value, for every value json.dumps accepts.
C1_RoundTripAnySerializable ==
    (Returned("get") /\ DbOk /\ Written.src = "insert" /\ Written.id = call.video_id)
        => /\ result.kind = "record"
           /\ result.recs[1].video_id = call.video_id
           /\ PyEq(result.recs[1].metadata, Written.v)

\* C1 amended: the round trip returns a deep-equal metadata for every
\* inserted value made of JSON's own types (dicts with str keys, lists, str,
\* numbers, None); for every serializable value the record comes back with
\* the inserted video_id.
C1_RoundTripJsonNative ==
    (Returned("get") /\ DbOk /\ Written.src = "insert" /\ Written.id = call.video_id)
        => /\ result.kind = "record"
           /\ result.recs[1].video_id = call.video_id
           /\ JsonNative(Written.v) => PyEq(result.recs[1].metadata, Written.v)

C1_Witness ==
    /\ Returned("get") /\ DbOk
    /\ Written.src = "insert" /\ Written.id = call.video_id
    /\ Written.v = MetaDemo
    /\ result.kind = "record"

(***************************************************************************)
(* C2  Update semantics.                                                   *)
(***************************************************************************)
\* C2 as stated: an update_video_metadata that reaches the table returns 0
\* and creates no row when no row matches video_id, and returns 1 when a row
\* matches, whatever the new value; a following get_video_metadata returns
\* exactly the new value as the metadata.
C2_UpdateSemantics ==
    /\ (Returned("update") /\ DbOk)
          => /\ result = RInt(IF call.had THEN 1 ELSE 0)
             /\ ~call.had => Matching(rows, call.video_id) = {}
    /\ (Returned("get") /\ DbOk /\ Written.src = "update")
          => /\ result.kind = "record"
             /\ PyEq(result.recs[1].metadata, Written.v)

(***************************************************************************)
(* C3  Uniqueness.                                                         *)
(***************************************************************************)
UniqueIds(rs) ==
    \A r1, r2 \in rs : Collate(r1.video_id) = Collate(r2.video_id) => r1 = r2

\* C3: an insert_video_data made while a row with the video_id exists
\* changes no row and returns None (it does not raise), and the table never
\* holds two rows with one video_id.
C3_Uniqueness ==
    [][/\ (pc # "idle" /\ call.op = "insert" /\ call.had)
             => /\ rows' = rows
                /\ result'.kind \in {"pending", "none"}
                /\ pc' = "idle" => result' = RNone
       /\ UniqueIds(rows')]_vars

C3_Witness ==
    /\ Returned("insert") /\ call.had /\ err = "query"
    /\ result = RNone
    /\ \E r \in rows : r.video_id = call.video_id /\ r.metadata # json_dumps(call.metadata)

(***************************************************************************)
(* C4  Partial-corruption resilience.                                      *)
(***************************************************************************)
\* the set of records of a result
RecordSet(res) == {res.recs[i] : i \in 1..Len(res.recs)}

\* C4 as stated: get_all_videos omits every row whose metadata text is not
\* valid JSON and returns every other row; get_video_metadata on such a row
\* returns None.
C4_InvalidTextOmitted ==
    /\ (Returned("list") /\ DbOk)
          => {rec.video_id : rec \in RecordSet(result)}
                = {r.video_id : r \in {x \in rows : ValidJson(x.metadata)}}
    /\ (Returned("get") /\ DbOk
          /\ \E r \in Matching(rows, call.video_id) : ~ValidJson(r.metadata))
          => result = RNone

\* C4 amended: the rows omitted (and answered with None) are those whose
\* metadata text is not empty and not valid JSON; a row whose metadata text is
\* empty is returned with metadata {}; every row with valid JSON is returned
\* decoded.
C4_NonEmptyInvalidTextOmitted ==
    /\ (Returned("list") /\ DbOk)
          => /\ RecordSet(result)
                  = {[video_id |-> r.video_id, metadata |-> json_loads(r.metadata).v] :
                        r \in {x \in rows : ValidJson(x.metadata)}}
                    \cup {[video_id |-> r.video_id, metadata |-> PyDict(<<>>)] :
                        r \in {x \in rows : x.metadata = <<>>}}
             /\ Len(result.recs) = Cardinality(RecordSet(result))
    /\ (Returned("get") /\ DbOk)
          => \A r \in Matching(rows, call.video_id) :
                /\ (r.metadata # <<>> /\ ~ValidJson(r.metadata)) => result = RNone
                /\ r.metadata = <<>>
                      => result = RRecord([video_id |-> r.video_id, metadata |-> PyDict(<<>>)])

C4_Witness ==
    /\ Returned("list") /\ DbOk
    /\ \E r \in rows : r.metadata # <<>> /\ ~ValidJson(r.metadata)
    /\ \E r \in rows : ValidJson(r.metadata)
    /\ Len(result.recs) = 1

(***************************************************************************)
(* C5  Connection exhaustion.                                              *)
(***************************************************************************)
\* C5 as stated: when every connect attempt of an acquisition failed, the
\* error leaves the operation as a raised error.
C5_ExhaustionRaises ==
    (pc = "idle" /\ err = "connect") => result.kind = "raised"

\* C5 amended: the error raised by _get_connection after the last attempt is
\* caught by the operation that asked for the connection: insert_video_data
\* and get_video_metadata return None, update_video_metadata returns 0,
\* get_all_videos returns [], and the constructor completes.
C5_ExhaustionSwallowed ==
    (pc = "idle" /\ err = "connect")
        => result = (CASE call.op = "init" -> RReturned
                       [] call.op = "insert" -> RNone
                       [] call.op = "update" -> RInt(0)
                       [] call.op = "get" -> RNone
                       [] call.op = "list" -> RList(<<>>))

C5_Witness == pc = "idle" /\ err = "connect" /\ call.op = "update" /\ result = RInt(0)


(***************************************************************************)
(* C6  Listing completeness.                                               *)
(***************************************************************************)
\* every row of the table was written by a successful insert_video_data and
\* by nothing else since
OnlyInserts == \A k \in Keys : wrote[k].src \in {"none", "insert"}

Inserted == {k \in Keys : wrote[k].src = "insert"}

\* C6 as stated: after N successful inserts with distinct ids into the empty
\* table, a get_all_videos that reaches the table returns exactly N records,
\* one per inserted id, each with a metadata deep-equal to the inserted value.
C6_ListingAnySerializable ==
    (Returned("list") /\ DbOk /\ OnlyInserts)
        => /\ Len(result.recs) = Cardinality(Inserted)
           /\ \A k \in Inserted : \E i \in 1..Len(result.recs) :
                 /\ result.recs[i].video_id = wrote[k].id
                 /\ PyEq(result.recs[i].metadata, wrote[k].v)

\* C6 amended: exactly N records, one per inserted id; the metadata is
\* deep-equal to the inserted value for every value made of JSON's own types.
C6_ListingJsonNative ==
    (Returned("list") /\ DbOk /\ OnlyInserts)
        => /\ Len(result.recs) = Cardinality(Inserted)
           /\ \A k \in Inserted : \E i \in 1..Len(result.recs) :
                 /\ result.recs[i].video_id = wrote[k].id
                 /\ JsonNative(wrote[k].v) => PyEq(result.recs[i].metadata, wrote[k].v)

C6_Witness ==
    /\ Returned("list") /\ DbOk /\ OnlyInserts
    /\ Cardinality(Inserted) = 2
    /\ Len(result.recs) = 2
    /\ result.recs[1].video_id = "v2"

(***************************************************************************)
(* C7  Idempotent bootstrap.                                               *)
(***************************************************************************)
\* C7: no step of a construction made while the table exists changes a row,
\* and the construction returns (it does not raise).
C7_IdempotentBootstrap ==
    [][(pc # "idle" /\ call.op = "init" /\ tableExists)
          => /\ rows' = rows
             /\ result'.kind \in {"pending", "returned"}
             /\ pc' = "idle" => result' = RReturned]_vars

C7_Witness ==
    /\ Returned("init") /\ err = "ok"
    /\ result = RReturned
    /\ Cardinality(rows) = 2

(***************************************************************************)
(* C8  Record lifecycle.                                                   *)
(***************************************************************************)
\* C8: no step, of the store or outside it, removes a row or changes a row's
\* video_id; an id is added only by the INSERT of a successful
\* insert_video_data, and it is the id of the call; the other operations
\* change no row, except that an update_video_metadata sets the metadata of
\* the row matching its video_id, and of no other row.
C8_RecordLifecycle ==
    [][/\ Ids(rows) \subseteq Ids(rows')
       /\ Cardinality(rows') >= Cardinality(rows)
       /\ Ids(rows') # Ids(rows)
             => /\ pc = "body" /\ call.op = "insert"
                /\ result' = RInt(0)
                /\ rows' = rows \cup {[video_id |-> call.video_id,
                                       metadata |-> json_dumps(call.metadata)]}
       /\ (pc # "idle" /\ call.op \in {"init", "get", "list"}) => rows' = rows
       /\ (pc # "idle" /\ call.op = "insert" /\ pc' = "idle" /\ result' = RNone)
             => rows' = rows
       /\ (pc # "idle" /\ call.op = "update")
             => /\ \A r \in rows : Collate(r.video_id) # Collate(call.video_id) => r \in rows'
                /\ \A r \in rows' : r \in rows \/ r.metadata = json_dumps(call.metadata)]_vars

C8_Witness ==
    /\ Returned("update") /\ result = RInt(1)
    /\ Cardinality(rows) = 2
    /\ \E r \in rows : r.metadata # json_dumps(call.metadata)

(***************************************************************************)
(* C9  Bounded retry.                                                      *)
(***************************************************************************)
\* C9: _get_connection makes an attempt only while fewer than max_retries
\* were made; a successful attempt returns its connection and no attempt
\* follows; a failed attempt that is not the last is followed by one delay of
\* retry_delay and then the next attempt, so that before attempt n + 1 the
\* delays add up to n * retry_delay; the failure of attempt max_retries
\* raises, with no delay; the loop never ends without a connection; every
\* step of the loop advances it (it terminates).
C9_BoundedRetry ==
    [][/\ pc = "connect"
             => /\ attempts < max_retries
                /\ attempt = attempts
                /\ slept = retry_delay * attempts
                /\ pc' \in {"body", "sleep", "idle"}
                /\ pc' = "body" => open' = open + 1 /\ err' = "ok"
                /\ pc' = "sleep" => attempts + 1 < max_retries /\ attempts' = attempts + 1
                /\ pc' = "idle" => /\ attempts + 1 = max_retries
                                   /\ err' = "connect"
                                   /\ open' = open
       /\ pc = "sleep"
             => /\ pc' = "connect"
                /\ slept' = slept + retry_delay
                /\ attempts' = attempts
       /\ pc \in {"body", "exit"} => pc' \notin {"connect", "sleep"}
       /\ (pc \in {"connect", "sleep"} /\ pc' \in {"connect", "sleep"})
             => attempts' + slept' > attempts + slept
       /\ err' # "noconn"]_vars

C9_Witness == pc = "connect" /\ attempts = max_retries - 1 /\ slept = 2 * retry_delay

(***************************************************************************)
(* C10  Scoped connections.                                                *)
(***************************************************************************)
\* C10: a call holds a connection exactly between its successful connect and
\* the end of its with statement, never more than one, and no connection is
\* open once a call has returned, whatever the way it ended.
C10_ScopedConnections ==
    /\ open \in {0, 1}
    /\ open = 1 <=> pc \in {"body", "exit"}
    /\ pc = "idle" => open = 0

C10_Witness ==
    /\ Returned("get") /\ err = "decode" /\ result = RNone
    /\ open = 0

====
